---- MODULE Spec2Model ----
(***************************************************************************)
(* Model of conservation_checker_map.py: a Streamlit script that is rerun  *)
(* top to bottom for every user interaction.  One rerun loads the boundary *)
(* datasets (through the process-wide st.cache_data cache), geocodes the   *)
(* postcode typed into the text input, tests the point against the region  *)
(* polygons, prints a verdict and draws a folium map.                      *)
(*                                                                         *)
(* Geometry is modelled on an integer grid of geographic coordinates       *)
(* (EPSG:4326); regions are axis-aligned boxes with closed boundaries.     *)
(* The reprojection to the British National Grid (EPSG:27700) is the       *)
(* local linear map with a different number of metres per grid step along  *)
(* the two axes; the buffer of the library is the exact disc.              *)
(***************************************************************************)
EXTENDS Integers, Sequences, FiniteSets, TLC

VARIABLES
    pc,           \* position of the script run
    cache,        \* st.cache_data entry of load_conservation_areas (process-wide)
    hit,          \* whether line 42 of this run was served from the cache
    n_loads,      \* executions of the body of load_conservation_areas so far
    areas,        \* module-level `areas` of this run
    postcode,     \* value of the text input of this run
    resp,         \* what requests.get met in this run
    requests,     \* URLs requested by this run, in order
    point,        \* result of postcode_to_point
    inside,       \* rows of `inside`
    nearby,       \* rows of `nearby`
    buffer_geom,  \* buffer returned by areas_within_radius
    exc,          \* the exception that ended this run, or "none"
    out,          \* elements written to the page by this run, in order
    m,            \* layers of the folium map of this run, in order
    log           \* operations performed by this run, in order

vars == <<pc, cache, hit, n_loads, areas, postcode, resp, requests, point,
          inside, nearby, buffer_geom, exc, out, m, log>>

(***************************************************************************)
(* Bounds of the model.                                                    *)
(***************************************************************************)
MaxLen == 3       \* longest postcode typed
MaxCoord == 3     \* geocoded points lie on the grid 0..MaxCoord squared
MaxLoads == 2     \* executions of the load body explored

(***************************************************************************)
(* Strings are sequences of characters.                                    *)
(***************************************************************************)
Alphabet == {"N", " ", "\t"}
Whitespace == {" ", "\t"}

RECURSIVE StringsUpTo(_)
StringsUpTo(n) ==
    IF n = 0 THEN {<<>>}
    ELSE LET shorter == StringsUpTo(n - 1)
         IN  shorter \cup {Append(s, c) : s \in {t \in shorter : Len(t) = n - 1},
                                          c \in Alphabet}

Postcodes == StringsUpTo(MaxLen)

\* str.replace(old, new) for a one-character `old`
RECURSIVE str_replace(_, _, _)
str_replace(s, old, new) ==
    IF s = <<>> THEN <<>>
    ELSE IF Head(s) = old THEN new \o str_replace(Tail(s), old, new)
    ELSE <<Head(s)>> \o str_replace(Tail(s), old, new)

\* str.startswith(prefix)
startswith(s, prefix) ==
    /\ Len(s) >= Len(prefix)
    /\ SubSeq(s, 1, Len(prefix)) = prefix

HTTP == <<"h", "t", "t", "p">>

(***************************************************************************)
(* Points, geometries and the two coordinate reference systems.            *)
(***************************************************************************)
None == [none |-> TRUE]
Point(lon, lat) == [x |-> lon, y |-> lat]
Box(x1, x2, y1, y2) == [x1 |-> x1, x2 |-> x2, y1 |-> y1, y2 |-> y2]

Coords == 0..MaxCoord
Points == {Point(a, b) : a \in Coords, b \in Coords}

MetresPerStepX == 7000     \* one grid step of longitude on the national grid
MetresPerStepY == 11000    \* one grid step of latitude on the national grid

\* GeoSeries.to_crs(27700) of a point and of a polygon
point_to_crs_27700(p) == Point(p.x * MetresPerStepX, p.y * MetresPerStepY)
geom_to_crs_27700(g) ==
    Box(g.x1 * MetresPerStepX, g.x2 * MetresPerStepX,
        g.y1 * MetresPerStepY, g.y2 * MetresPerStepY)
\* GeoSeries.to_crs(4326) of a polygon given on the national grid
geom_to_crs_4326(g) ==
    Box(g.x1 \div MetresPerStepX, g.x2 \div MetresPerStepX,
        g.y1 \div MetresPerStepY, g.y2 \div MetresPerStepY)

(***************************************************************************)
(* The static boundary files.  A row carries the attribute columns the     *)
(* script reads and a polygon.  Two versions of the files' contents exist  *)
(* on disk over time; a read of a missing or corrupt file raises.          *)
(***************************************************************************)
NaN == [str |-> FALSE, s |-> <<>>]
Str(s) == [str |-> TRUE, s |-> s]
Row(name, reference, doc, geometry) ==
    [name |-> name, reference |-> reference, doc |-> doc, geometry |-> geometry]

Versions == {1, 2}

File1(v) ==
    IF v = 1
    THEN << Row("Hampstead", "CA1", Str(HTTP \o <<":", "a">>), Box(0, 2, 0, 2)) >>
    ELSE << Row("Camden Square", "CA3", Str(<<>>), Box(1, 3, 1, 1)),
            Row("Bartholomew", "CA4", Str(HTTP \o <<":", "b">>), Box(0, 1, 1, 2)) >>

File2(v) ==
    IF v = 1
    THEN << Row("Kentish Town", "CA2", NaN, Box(3, 4, 3, 4)) >>
    ELSE << Row("Regents Canal", "CA5", Str(<<"n", "/", "a">>), Box(3, 3, 3, 3)) >>

\* gpd.read_file: the rows of the file, or an exception
read_file(ok, rows) ==
    IF ok THEN [exc |-> "none", rows |-> rows]
    ELSE [exc |-> "DataSourceError", rows |-> <<>>]

NoFrame == [crs |-> 0, rows |-> <<>>]
GeoDataFrame(rows, crs) == [crs |-> crs, rows |-> rows]

\* the body of load_conservation_areas, given what the two reads met
load_lenient(gdf1, gdf2) ==
    [exc |-> "none", gdf |-> GeoDataFrame(gdf1.rows \o gdf2.rows, 4326)]
load_conservation_areas(gdf1, gdf2) ==
    IF gdf1.exc # "none" THEN [exc |-> gdf1.exc, gdf |-> NoFrame]
    ELSE IF gdf2.exc # "none" THEN [exc |-> gdf2.exc, gdf |-> NoFrame]
    ELSE [exc |-> "none", gdf |-> GeoDataFrame(gdf1.rows \o gdf2.rows, 4326)]

\* @st.cache_data: an entry, once stored, answers every later call
cache_never(c) == FALSE
cache_hit(c) == c # NoFrame

(***************************************************************************)
(* The lookup service and postcode_to_point.                               *)
(***************************************************************************)
URLBase == <<"https://api.postcodes.io/postcodes/">>

Result(null, lon, lat) == [null |-> null, longitude |-> lon, latitude |-> lat]
Response(fault, code, json_ok, status, result) ==
    [fault |-> fault, status_code |-> code, json_ok |-> json_ok,
     data |-> [status |-> status, result |-> result]]

NoResponse == Response("unsent", 0, FALSE, 0, Result(TRUE, 0, 0))

NetworkFailures ==
    { Response("ConnectionError", 0, FALSE, 0, Result(TRUE, 0, 0)),
      Response("Timeout", 0, FALSE, 0, Result(TRUE, 0, 0)),
      Response("none", 200, FALSE, 0, Result(TRUE, 0, 0)) }
ResolutionFailures ==
    { Response("none", 404, TRUE, 404, Result(TRUE, 0, 0)),
      Response("none", 500, FALSE, 0, Result(TRUE, 0, 0)),
      Response("none", 200, TRUE, 404, Result(TRUE, 0, 0)),
      Response("none", 200, TRUE, 404, Result(FALSE, 0, 0)),
      Response("none", 200, TRUE, 200, Result(TRUE, 0, 0)) }
Resolutions ==
    { Response("none", 200, TRUE, 200, Result(FALSE, p.x, p.y)) : p \in Points }
Responses == NetworkFailures \cup ResolutionFailures \cup Resolutions

\* line 48: the URL of the lookup
request_url_raw(pcode) == URLBase \o pcode
request_url(pcode) == URLBase \o str_replace(pcode, " ", <<>>)

\* line 49: the outbound calls made for one lookup
outbound_calls_retry(url, r) ==
    IF r.fault # "none" \/ r.status_code # 200 THEN <<url, url>> ELSE <<url>>
outbound_calls(url, r) == <<url>>

\* line 55: the body tells that the postcode did not resolve
no_match_status_only(data) == data.status # 200
no_match(data) == data.status # 200 \/ data.result.null

postcode_to_point(pcode, r) ==
    LET url == request_url(pcode)
        calls == outbound_calls(url, r)
    IN  IF r.fault # "none"
        THEN [exc |-> r.fault, point |-> None, calls |-> calls]
        ELSE IF r.status_code # 200
        THEN [exc |-> "none", point |-> None, calls |-> calls]
        ELSE IF ~r.json_ok
        THEN [exc |-> "JSONDecodeError", point |-> None, calls |-> calls]
        ELSE IF no_match(r.data)
        THEN [exc |-> "none", point |-> None, calls |-> calls]
        ELSE [exc |-> "none",
              point |-> Point(r.data.result.longitude, r.data.result.latitude),
              calls |-> calls]

(***************************************************************************)
(* Spatial queries.                                                        *)
(***************************************************************************)
\* shapely intersects of a polygon and a point: boundary included
intersects_interior_only(g, p) ==
    /\ g.x1 < p.x /\ p.x < g.x2
    /\ g.y1 < p.y /\ p.y < g.y2
intersects(g, p) ==
    /\ g.x1 <= p.x /\ p.x <= g.x2
    /\ g.y1 <= p.y /\ p.y <= g.y2

\* line 90
rows_intersecting(gdf, p) ==
    SelectSeq(gdf.rows, LAMBDA row : intersects(row.geometry, p))

\* line 69: the buffer distance in metres
buffer_distance_no_factor(km) == km
buffer_distance(km) == km * 1000

\* GeoSeries.buffer of a point: the disc around it
buffer(p, distance) == [centre |-> p, radius |-> distance]

Gap(lo, hi, c) == IF c < lo THEN lo - c ELSE IF c > hi THEN c - hi ELSE 0

\* shapely intersects of a polygon and a disc, both on the national grid
intersects_buffer(g, b) ==
    LET dx == Gap(g.x1, g.x2, b.centre.x)
        dy == Gap(g.y1, g.y2, b.centre.y)
    IN  dx * dx + dy * dy <= b.radius * b.radius

\* GeoDataFrame.to_crs
gdf_to_crs_27700(gdf) ==
    GeoDataFrame([i \in DOMAIN gdf.rows |->
                     [gdf.rows[i] EXCEPT !.geometry = geom_to_crs_27700(@)]], 27700)
gdf_to_crs_4326(gdf) ==
    GeoDataFrame([i \in DOMAIN gdf.rows |->
                     [gdf.rows[i] EXCEPT !.geometry = geom_to_crs_4326(@)]], 4326)

point_unprojected(p) == p
point_gdf_to_crs(p) == point_to_crs_27700(p)

areas_within_radius(pt, areas_gdf, km) ==
    LET point_gdf == point_gdf_to_crs(pt)
        areas_m == gdf_to_crs_27700(areas_gdf)
        buf == buffer(point_gdf, buffer_distance(km))
        near == GeoDataFrame(
                    SelectSeq(areas_m.rows,
                              LAMBDA row : intersects_buffer(row.geometry, buf)),
                    areas_m.crs)
    IN  [nearby |-> gdf_to_crs_4326(near), buffer_geom |-> buf]

DefaultKm == 10

(***************************************************************************)
(* Presentation: page elements and map layers.                             *)
(***************************************************************************)
El(w, name, reference, doc) ==
    [w |-> w, name |-> name, reference |-> reference, doc |-> doc]
Plain(w) == El(w, "", "", <<>>)

\* lines 12-21
page_header == << Plain("title"), Plain("intro") >>
\* lines 163-166
page_footer == << Plain("footer") >>

\* lines 100-107: what is printed for one row of `inside`
doc_link_shown(row) == row.doc.str /\ startswith(row.doc.s, HTTP)

row_listing(row) ==
    << El("region", row.name, row.reference, <<>>) >>
    \o (IF doc_link_shown(row) THEN << El("doclink", "", "", row.doc.s) >> ELSE <<>>)

RECURSIVE rows_listing(_)
rows_listing(rows) ==
    IF rows = <<>> THEN <<>>
    ELSE row_listing(Head(rows)) \o rows_listing(Tail(rows))

\* lines 96-109
results(inside_gdf) ==
    IF inside_gdf.rows # <<>>
    THEN << Plain("success") >> \o rows_listing(inside_gdf.rows)
    ELSE << Plain("warning") >>

DocNote == " (documentation available)"

\* lines 134-136
tooltip_text_http_only(row) ==
    <<row.name>> \o (IF doc_link_shown(row) THEN <<DocNote>> ELSE <<>>)
tooltip_text(row) ==
    <<row.name>> \o (IF row.doc.str THEN <<DocNote>> ELSE <<>>)

Layer(kind, geometry, tooltip, popup) ==
    [kind |-> kind, geometry |-> geometry, tooltip |-> tooltip, popup |-> popup]

\* lines 114-156: the layers added to the map, in order
folium_map(pt, buf, nearby_gdf, pcode) ==
    << Layer("tiles", Point(pt.y, pt.x), <<>>, <<>>),
       Layer("radius", buf, <<"10 km radius">>, <<>>) >>
    \o [i \in DOMAIN nearby_gdf.rows |->
           Layer("area", nearby_gdf.rows[i].geometry,
                 tooltip_text(nearby_gdf.rows[i]), <<>>)]
    \o << Layer("marker", Point(pt.y, pt.x), <<>>, pcode),
          Layer("control", None, <<>>, <<>>) >>

(***************************************************************************)
(* The script run, one action per stretch of the script.                   *)
(***************************************************************************)
NoBuffer == buffer(None, 0)
Ended == {"idle", "done", "stopped", "crashed"}

Init ==
    /\ pc = "idle"
    /\ cache = NoFrame
    /\ hit = FALSE
    /\ n_loads = 0
    /\ areas = NoFrame
    /\ postcode = <<>>
    /\ resp = NoResponse
    /\ requests = <<>>
    /\ point = None
    /\ inside = NoFrame
    /\ nearby = NoFrame
    /\ buffer_geom = NoBuffer
    /\ exc = "none"
    /\ out = <<>>
    /\ m = <<>>
    /\ log = <<>>

\* line 78: the text input holds what the user typed into it, and the user
\* can type only into an input that the previous run has put on the page
WidgetShown == pc \in {"done", "stopped"} \/ (pc = "crashed" /\ exc # "DataSourceError")
Inputs == IF WidgetShown THEN Postcodes ELSE {<<>>}

\* everything a rerun starts afresh
FreshRun(text) ==
    /\ text \in Inputs
    /\ postcode' = text
    /\ resp' = NoResponse
    /\ requests' = <<>>
    /\ point' = None
    /\ inside' = NoFrame
    /\ nearby' = NoFrame
    /\ buffer_geom' = NoBuffer
    /\ m' = <<>>
    /\ log' = <<>>

\* lines 12-42 when the cache answers load_conservation_areas()
RerunCached(text) ==
    /\ pc \in Ended
    /\ cache_hit(cache)
    /\ FreshRun(text)
    /\ hit' = TRUE
    /\ areas' = cache
    /\ exc' = "none"
    /\ out' = page_header
    /\ pc' = "ui"
    /\ UNCHANGED <<cache, n_loads>>

\* lines 12-42 when load_conservation_areas() runs its body
RerunLoading(text, v, ok1, ok2) ==
    /\ pc \in Ended
    /\ ~cache_hit(cache)
    /\ n_loads < MaxLoads
    /\ FreshRun(text)
    /\ hit' = FALSE
    /\ n_loads' = n_loads + 1
    /\ LET loaded == load_conservation_areas(read_file(ok1, File1(v)),
                                             read_file(ok2, File2(v)))
       IN  IF loaded.exc # "none"
           THEN /\ exc' = loaded.exc
                /\ out' = page_header \o << Plain("exception") >>
                /\ pc' = "crashed"
                /\ UNCHANGED <<cache, areas>>
           ELSE /\ exc' = "none"
                /\ cache' = loaded.gdf
                /\ areas' = loaded.gdf
                /\ out' = page_header
                /\ pc' = "ui"

\* lines 78-83 with an empty text input, then the footer
NoPostcode ==
    /\ pc = "ui"
    /\ postcode = <<>>
    /\ out' = out \o page_footer
    /\ pc' = "done"
    /\ UNCHANGED <<cache, hit, n_loads, areas, postcode, resp, requests, point,
                   inside, nearby, buffer_geom, exc, m, log>>

\* lines 83-84: the call of postcode_to_point
Geocode(r) ==
    /\ pc = "ui"
    /\ postcode # <<>>
    /\ LET got == postcode_to_point(postcode, r)
       IN  /\ resp' = r
           /\ requests' = requests \o got.calls
           /\ log' = log \o [i \in DOMAIN got.calls |-> "request"]
           /\ point' = got.point
           /\ exc' = got.exc
           /\ IF got.exc # "none"
              THEN /\ out' = out \o << Plain("exception") >>
                   /\ pc' = "crashed"
              ELSE /\ out' = out
                   /\ pc' = "resolved"
    /\ UNCHANGED <<cache, hit, n_loads, areas, postcode, inside, nearby,
                   buffer_geom, m>>

\* lines 86-88
InvalidPostcode ==
    /\ pc = "resolved"
    /\ point = None
    /\ out' = out \o << Plain("error: Invalid postcode") >>
    /\ pc' = "stopped"
    /\ UNCHANGED <<cache, hit, n_loads, areas, postcode, resp, requests, point,
                   inside, nearby, buffer_geom, exc, m, log>>

\* lines 90-91
SpatialQuery ==
    /\ pc = "resolved"
    /\ point # None
    /\ LET within == areas_within_radius(point, areas, DefaultKm)
       IN  /\ inside' = GeoDataFrame(rows_intersecting(areas, point), areas.crs)
           /\ nearby' = within.nearby
           /\ buffer_geom' = within.buffer_geom
    /\ log' = log \o <<"containment", "radius">>
    /\ pc' = "queried"
    /\ UNCHANGED <<cache, hit, n_loads, areas, postcode, resp, requests, point,
                   exc, out, m>>

\* lines 96-109
Verdict ==
    /\ pc = "queried"
    /\ out' = out \o results(inside)
    /\ log' = log \o <<"verdict">>
    /\ pc' = "verdict"
    /\ UNCHANGED <<cache, hit, n_loads, areas, postcode, resp, requests, point,
                   inside, nearby, buffer_geom, exc, m>>

\* lines 114-166
RenderMap ==
    /\ pc = "verdict"
    /\ m' = folium_map(point, buffer_geom, nearby, postcode)
    /\ out' = out \o << Plain("map") >> \o page_footer
    /\ log' = log \o <<"map">>
    /\ pc' = "done"
    /\ UNCHANGED <<cache, hit, n_loads, areas, postcode, resp, requests, point,
                   inside, nearby, buffer_geom, exc>>

Next ==
    \/ \E text \in Postcodes : RerunCached(text)
    \/ \E text \in Postcodes, v \in Versions, ok1 \in BOOLEAN, ok2 \in BOOLEAN :
           RerunLoading(text, v, ok1, ok2)
    \/ NoPostcode
    \/ \E r \in Responses : Geocode(r)
    \/ InvalidPostcode
    \/ SpatialQuery
    \/ Verdict
    \/ RenderMap

Spec == Init /\ [][Next]_vars

(***************************************************************************)
(* Vocabulary of the properties.                                           *)
(***************************************************************************)
\* the run got past the geocoder with a point and has run lines 90-91
Queried == pc \in {"queried", "verdict"} \/ (pc = "done" /\ postcode # <<>>)
\* the run has printed its verdict
Answered == pc = "verdict" \/ (pc = "done" /\ postcode # <<>>)
\* the run has drawn its map
Rendered == pc = "done" /\ postcode # <<>>
\* the run got past line 42
Serving == pc \in {"ui", "resolved", "queried", "verdict", "done", "stopped"}
           \/ (pc = "crashed" /\ exc # "DataSourceError")

Elements(kinds) == SelectSeq(out, LAMBDA e : e.w \in kinds)
AreaLayers == SelectSeq(m, LAMBDA l : l.kind = "area")
Has(seq, x) == \E i \in DOMAIN seq : seq[i] = x

\* the collections a load of both files yields
FullCollections == {GeoDataFrame(File1(v) \o File2(v), 4326) : v \in Versions}

\* position j of s holds one of `chars` and lies between two other characters
Embedded(s, j, chars) ==
    /\ s[j] \in chars
    /\ \E i \in 1..(j - 1) : s[i] \notin Whitespace
    /\ \E k \in (j + 1)..Len(s) : s[k] \notin Whitespace
HasEmbedded(s, chars) == \E j \in DOMAIN s : Embedded(s, j, chars)

\* s without its embedded occurrences of `chars`
RECURSIVE DropEmbedded(_, _, _)
DropEmbedded(s, j, chars) ==
    IF j > Len(s) THEN <<>>
    ELSE (IF Embedded(s, j, chars) THEN <<>> ELSE <<s[j]>>)
         \o DropEmbedded(s, j + 1, chars)
WithoutEmbedded(s, chars) == DropEmbedded(s, 1, chars)

\* the outcome of the lookup of this run
Outcome == [exc |-> exc, point |-> point, calls |-> requests]
Looked == pc \in {"resolved", "stopped", "queried", "verdict"} \/ Rendered
          \/ (pc = "crashed" /\ exc # "DataSourceError")

\* the point lies in the closed box
Covers(g, p) == p.x \in g.x1..g.x2 /\ p.y \in g.y1..g.y2

\* the box lies within km kilometres of the point, measured on the ground
StepsApart(lo, hi, c) == IF c \in lo..hi THEN 0 ELSE IF c < lo THEN lo - c ELSE c - hi
WithinKm(g, p, km) ==
    LET ex == StepsApart(g.x1, g.x2, p.x) * (MetresPerStepX \div 1000)
        ny == StepsApart(g.y1, g.y2, p.y) * (MetresPerStepY \div 1000)
    IN  ex * ex + ny * ny <= km * km

SourceTags == {"conservation-area-1.geojson", "conservation-area-2.geojson"}

(***************************************************************************)
(* Properties.                                                             *)
(***************************************************************************)

\* C1: when the lookup is a resolution failure (a non-success HTTP status, a
\* body whose status is not success, or a null result) the run shows the
\* "Invalid postcode" error and halts: no containment test, no radius query,
\* no verdict and no map follow the error.
C1_ResolutionFailureHalts ==
    resp \in ResolutionFailures =>
        /\ pc \in {"resolved", "stopped"}
        /\ exc = "none"
        /\ point = None
        /\ log = <<"request">>
        /\ inside = NoFrame /\ nearby = NoFrame /\ m = <<>>
        /\ pc = "resolved" => out = page_header
        /\ pc = "stopped" =>
               out = page_header \o << Plain("error: Invalid postcode") >>

C1_Witness ==
    /\ pc = "stopped"
    /\ resp \in ResolutionFailures
    /\ out[Len(out)] = Plain("error: Invalid postcode")

\* C2: a network failure of the lookup (connection error, timeout, unreadable
\* body) is treated as a resolution failure: postcode_to_point yields the
\* not-found signal, no unhandled exception ends the run, and the user sees
\* the error message.
C2_NetworkFailureIsNotFound ==
    resp \in NetworkFailures =>
        /\ exc = "none"
        /\ pc \in {"resolved", "stopped"}
        /\ point = None
        /\ pc = "stopped" => Has(out, Plain("error: Invalid postcode"))

\* C3: when the read of either boundary file fails the load fails as a whole
\* and the run serves no query; a verdict is only ever given against a
\* collection made of both files, never against an empty or partial one.
C3_NoPartialDataset ==
    /\ cache \in FullCollections \cup {NoFrame}
    /\ Serving => areas \in FullCollections
    /\ Elements({"success", "warning"}) # <<>> => areas \in FullCollections
    /\ exc = "DataSourceError" =>
           /\ pc = "crashed"
           /\ cache = NoFrame
           /\ requests = <<>> /\ log = <<>> /\ m = <<>>
           /\ out = page_header \o << Plain("exception") >>

C3_Witness ==
    /\ n_loads = 2
    /\ Answered
    /\ Has(out, Plain("warning"))

\* C4 as stated: a postcode with embedded whitespace characters issues the
\* same request and gets the same result as the postcode with all its
\* embedded whitespace removed, the lookup service answering both alike.
C4_AllWhitespace ==
    (Looked /\ HasEmbedded(postcode, Whitespace) /\ resp \notin NetworkFailures) =>
        Outcome = postcode_to_point(WithoutEmbedded(postcode, Whitespace), resp)

\* C4 amended: a postcode with embedded space characters issues the same
\* request and gets the same result as the postcode with all its embedded
\* spaces removed; other whitespace characters are sent as typed.
C4_SpacesOnly ==
    (Looked /\ HasEmbedded(postcode, {" "})) =>
        /\ Outcome = postcode_to_point(WithoutEmbedded(postcode, {" "}), resp)
        /\ requests[1] = URLBase \o SelectSeq(postcode, LAMBDA c : c # " ")

C4_Witness ==
    /\ pc = "resolved"
    /\ HasEmbedded(postcode, {" "})
    /\ point # None

C6_Verdict ==
    Answered =>
        LET covering == SelectSeq(areas.rows,
                                  LAMBDA row : Covers(row.geometry, point))
            verdicts == Elements({"success", "warning"})
        IN  /\ Len(verdicts) = 1
            /\ verdicts[1].w = "success" <=> covering # <<>>
            /\ Elements({"region"}) =
                   [i \in DOMAIN covering |->
                       El("region", covering[i].name, covering[i].reference, <<>>)]

C6_Witness ==
    /\ pc = "verdict"
    /\ Has(out, Plain("success"))
    /\ \E i \in DOMAIN inside.rows : point.x = inside.rows[i].geometry.x2

\* C7 as stated: the boundary files are read at most once in the process and
\* every submission queries the collection that load produced.
C7_ReadAtMostOnce ==
    /\ n_loads <= 1
    /\ Serving => areas = cache

\* C7 amended: once a load has succeeded the files are never read again and
\* every later submission queries the collection that load produced; a
\* failed load is not cached and is repeated by the next rerun.
C7_ReadOnceLoaded ==
    /\ [][cache # NoFrame => (cache' = cache /\ n_loads' = n_loads)]_vars
    /\ [](Serving => (areas = cache /\ cache # NoFrame))

C7_Witness ==
    /\ hit
    /\ n_loads = 2
    /\ pc = "verdict"

\* C8: a non-empty submission issues exactly one lookup request, then, only
\* if it resolved, one containment test and one radius query, then one
\* render, in that order; nothing is retried and no earlier result is used
\* in place of a request.
C8_OneRequestThenQueryThenRender ==
    /\ postcode = <<>> => requests = <<>> /\ log = <<>>
    /\ postcode # <<>> =>
           /\ pc \in {"ui", "resolved", "stopped", "crashed", "queried", "verdict", "done"}
           /\ pc = "ui" => requests = <<>> /\ log = <<>>
           /\ pc # "ui" =>
                  /\ requests = << URLBase \o SelectSeq(postcode, LAMBDA c : c # " ") >>
                  /\ SubSeq(log, 1, 1) = <<"request">>
           /\ pc \in {"resolved", "stopped", "crashed"} => log = <<"request">>
           /\ pc \in {"queried", "verdict", "done"} => point # None
           /\ pc = "queried" => log = <<"request", "containment", "radius">>
           /\ pc = "verdict" => log = <<"request", "containment", "radius", "verdict">>
           /\ pc = "done" =>
                  log = <<"request", "containment", "radius", "verdict", "map">>

C8_Witness ==
    /\ Rendered
    /\ hit
    /\ log = <<"request", "containment", "radius", "verdict", "map">>

C10_InsideIsNearby ==
    /\ Queried => \A i \in DOMAIN inside.rows : Has(nearby.rows, inside.rows[i])
    /\ Rendered =>
           \A i \in DOMAIN out :
               out[i].w = "region" =>
                   \E j \in DOMAIN AreaLayers : AreaLayers[j].tooltip[1] = out[i].name

C10_Witness ==
    /\ Rendered
    /\ inside.rows # <<>>
    /\ Len(nearby.rows) > Len(inside.rows)
    /\ point.x > 0 /\ point.y > 0

====
